---- MODULE Spec2Model ----
(***************************************************************************)
(* Model of TimeTracker (APP_Control_Horas.py): the record set kept in     *)
(* memory (self.data), the JSON file behind it, and the operations         *)
(* register_time, delete_record, calculate_hours, get_week_data and        *)
(* get_year_total.                                                         *)
(*                                                                         *)
(* Encodings.                                                              *)
(*   - A time string "HH:MM" is the number HH*100+MM ("09:05" is 905); a   *)
(*     field holding None is <<>>, a field holding the string s is <<s>>.  *)
(*   - A date is a day number counted from 2024-12-01 (a datetime.date);   *)
(*     a date key "YYYY-MM-DD" is the number YYYYMMDD.                     *)
(*   - Hours returned by round(x, 2) are whole hundredths of an hour;      *)
(*     unrounded hours are kept as seconds (hours = seconds / 3600).       *)
(*   - A quotient that the code does not round is the pair <<num, den>>    *)
(*     in lowest terms, in hundredths of an hour.                          *)
(***************************************************************************)
EXTENDS Integers, Sequences, FiniteSets, TLC

VARIABLES data, file, lastOp, ret

vars == <<data, file, lastOp, ret>>

None == <<>>

Str(s) == <<s>>

\* Python truthiness of an optional string field (None is falsy).
Truthy(field) == field # None

Empty == [k \in {} |-> None]

----------------------------------------------------------------------------
(* Bounds and input sets *)

\* December 2024, January 2025 and January 1900 all have 31 days.
DaysInMonth == 31

\* Number of consecutive calendar dates the aggregation stores range over.
NumDates == 4

\* Day number of the first date of the model: Sunday 2024-12-29, so that the
\* dates reach into 2025 (day numbers count from 2024-12-01 as day 0).
FirstDay == DaysInMonth - 3

AggDays == FirstDay .. (FirstDay + NumDates - 1)

----------------------------------------------------------------------------
(* datetime: strftime / strptime *)

\* date.strftime("%Y-%m-%d") for the dates 2024-12-01 .. 2025-01-31.
strftime_date(day) ==
    IF day < DaysInMonth THEN 20241201 + day
    ELSE 20250101 + (day - DaysInMonth)

\* datetime.strptime(date_str, "%Y-%m-%d"): None when the key is no date.
strptime_date(key) ==
    LET y == key \div 10000
        m == (key \div 100) % 100
        d == key % 100
    IN  IF y >= 1 /\ m >= 1 /\ m <= 12 /\ d >= 1 /\ d <= 31
        THEN Str([year |-> y, month |-> m, day |-> d])
        ELSE None

\* time.strftime("%H:%M") of the time of day h:m.
strftime_time(h, m) == h * 100 + m

\* datetime.strptime(s, "%H:%M"): a datetime on 1900-01-01, kept as the day
\* of the month and the minute of the day; None when s does not parse.
strptime_time(s) ==
    LET h == s \div 100
        m == s % 100
    IN  IF s >= 0 /\ h <= 23 /\ m <= 59
        THEN Str([day |-> 1, minute |-> h * 60 + m])
        ELSE None

\* datetime.replace(day=day): raises (None) when the month has no such day.
replace_day(dt, day) ==
    IF day >= 1 /\ day <= DaysInMonth
    THEN Str([dt EXCEPT !.day = day])
    ELSE None

\* (exit - entry).total_seconds()
total_seconds(exit, entry) ==
    ((exit.day - entry.day) * 1440 + (exit.minute - entry.minute)) * 60

----------------------------------------------------------------------------
(* round *)

\* The integer nearest to n / d, a tie going to the even neighbour.
RoundHalfEven(n, d) ==
    LET q == n \div d
        r == n % d
    IN  IF 2 * r < d THEN q
        ELSE IF 2 * r > d THEN q + 1
        ELSE IF q % 2 = 0 THEN q ELSE q + 1

SecondsPerHour == 3600

\* round(seconds / 3600, 2), in hundredths of an hour.
Round2Mutant(seconds) == (100 * seconds) \div SecondsPerHour

Round2(seconds) == RoundHalfEven(100 * seconds, SecondsPerHour)

----------------------------------------------------------------------------
(* calculate_hours *)

BreakThresholdHours == 5

BreakSeconds == 1800

NoHours == [net |-> None, gross |-> None]

Before(a, b) ==
    a.day < b.day \/ (a.day = b.day /\ a.minute < b.minute)

OvernightMutant(entry, exit) == Str(exit)

\* if exit < entry: exit = exit.replace(day=exit.day + 1)
Overnight(entry, exit) ==
    IF Before(exit, entry) THEN replace_day(exit, exit.day + 1)
    ELSE Str(exit)

BreakAppliesMutant(apply_break, horas_brutas) ==
    apply_break /\ horas_brutas >= BreakThresholdHours * SecondsPerHour

\* apply_break and horas_brutas > 5
BreakApplies(apply_break, horas_brutas) ==
    apply_break /\ horas_brutas > BreakThresholdHours * SecondsPerHour

calculate_hours(d, date_str, apply_break) ==
    IF date_str \in DOMAIN d
       /\ Truthy(d[date_str].entry)
       /\ Truthy(d[date_str].exit)
    THEN LET entry == strptime_time(d[date_str].entry[1])
             exit0 == strptime_time(d[date_str].exit[1])
         IN  IF entry = None \/ exit0 = None
             THEN NoHours
             ELSE LET exit == Overnight(entry[1], exit0[1])
                  IN  IF exit = None
                      THEN NoHours
                      ELSE LET horas_brutas == total_seconds(exit[1], entry[1])
                               horas_netas ==
                                   IF BreakApplies(apply_break, horas_brutas)
                                   THEN horas_brutas - BreakSeconds
                                   ELSE horas_brutas
                           IN  [net |-> Str(Round2(horas_netas)),
                                gross |-> Str(Round2(horas_brutas))]
    ELSE NoHours

\* Python truthiness of a returned hours value: None and 0.0 are falsy.
TruthyHours(h) == h # None /\ h[1] # 0

----------------------------------------------------------------------------
(* load_data / save_data *)

AbsentFile == [kind |-> "absent", content |-> Empty]

CorruptFile == [kind |-> "corrupt", content |-> Empty]

JsonFile(d) == [kind |-> "json", content |-> d]

\* load_data: a missing file and an unreadable file both give {}.
load_data(f) == IF f.kind = "json" THEN f.content ELSE Empty

SaveOutcomes == {"ok", "open_failed", "dump_failed"}

\* (opened with 'a': a second document after the first is no JSON)
save_data_mutant(d, f, outcome) ==
    CASE outcome = "ok" ->
             IF f.kind = "json" THEN CorruptFile ELSE JsonFile(d)
      [] outcome = "open_failed" -> f
      [] outcome = "dump_failed" -> CorruptFile

\* save_data: open(.., 'w') then json.dump of the whole record set.  When
\* open raises the file is as it was; when json.dump raises the file was
\* already truncated and holds no complete JSON document.
save_data(d, f, outcome) ==
    CASE outcome = "ok" -> JsonFile(d)
      [] outcome = "open_failed" -> f
      [] outcome = "dump_failed" -> CorruptFile

Saved(outcome) == IF outcome = "ok" THEN "ok" ELSE "fail"

----------------------------------------------------------------------------
(* register_time / delete_record *)

NewRecord == [entry |-> None, exit |-> None, notes |-> ""]

SetField(rec, time_type, time_value) ==
    IF time_type = "entry" THEN [rec EXCEPT !.entry = Str(time_value)]
    ELSE [rec EXCEPT !.exit = Str(time_value)]

register_notes_mutant(rec, notes) == [rec EXCEPT !.notes = notes]

\* if notes: self.data[date_str]["notes"] = notes
register_notes(rec, notes) ==
    IF notes # "" THEN [rec EXCEPT !.notes = notes] ELSE rec

\* The record set after register_time's assignments.
register_time_data(d, date_str, time_type, time_value, notes) ==
    LET rec0 == IF date_str \in DOMAIN d THEN d[date_str] ELSE NewRecord
        rec == register_notes(SetField(rec0, time_type, time_value), notes)
    IN  [k \in DOMAIN d \cup {date_str} |-> IF k = date_str THEN rec ELSE d[k]]

delete_record_data_mutant(d, date_str) ==
    [k \in DOMAIN d |-> IF k = date_str THEN NewRecord ELSE d[k]]

\* del self.data[date_str]
delete_record_data(d, date_str) ==
    [k \in DOMAIN d \ {date_str} |-> d[k]]

RegisterTime(date_str, time_type, time_value, notes, outcome) ==
    /\ data' = register_time_data(data, date_str, time_type, time_value, notes)
    /\ file' = save_data(data', file, outcome)
    /\ lastOp' = [op |-> "register_time",
                  args |-> <<date_str, time_type, time_value, notes>>,
                  saved |-> Saved(outcome)]
    /\ ret' = TRUE

DeleteRecord(date_str, outcome) ==
    IF date_str \in DOMAIN data
    THEN /\ data' = delete_record_data(data, date_str)
         /\ file' = save_data(data', file, outcome)
         /\ lastOp' = [op |-> "delete_record", args |-> <<date_str>>,
                       saved |-> Saved(outcome)]
         /\ ret' = TRUE
    ELSE /\ lastOp' = [op |-> "delete_record", args |-> <<date_str>>,
                       saved |-> "none"]
         /\ ret' = FALSE
         /\ UNCHANGED <<data, file>>

CalculateHours(date_str, apply_break) ==
    /\ lastOp' = [op |-> "calculate_hours", args |-> <<date_str, apply_break>>,
                  saved |-> "none"]
    /\ ret' = calculate_hours(data, date_str, apply_break)
    /\ UNCHANGED <<data, file>>

----------------------------------------------------------------------------
(* get_week_data / get_year_total *)

RECURSIVE GCD(_, _)
GCD(a, b) == IF b = 0 THEN a ELSE GCD(b, a % b)

\* The exact quotient n / d (d > 0, n >= 0), in lowest terms.
Quot(n, d) ==
    LET g == GCD(n, d) IN <<n \div g, d \div g>>

Zero == <<0, 1>>

WeekLength == 7

\* if horas_netas:
WeekCounts(horas_netas) == TruthyHours(horas_netas)

HasBreakMutant(horas_brutas) == horas_brutas >= BreakThresholdHours * 100

\* "has_break": horas_brutas > 5, on the rounded gross hours.
HasBreak(horas_brutas) == horas_brutas > BreakThresholdHours * 100

NoTotals == [days |-> Empty, net |-> 0, gross |-> 0, worked |-> 0]

\* One pass of the loop body of get_week_data for the date start_date + i.
week_step(d, start_date, i, acc) ==
    LET date_str == strftime_date(start_date + i)
        h == calculate_hours(d, date_str, TRUE)
    IN  IF date_str \in DOMAIN d /\ WeekCounts(h.net)
        THEN [days |-> [k \in DOMAIN acc.days \cup {date_str} |->
                         IF k = date_str
                         THEN [entry |-> d[date_str].entry,
                               exit |-> d[date_str].exit,
                               hours_net |-> h.net[1],
                               hours_gross |-> h.gross[1],
                               notes |-> d[date_str].notes,
                               has_break |-> HasBreak(h.gross[1])]
                         ELSE acc.days[k]],
              net |-> acc.net + h.net[1],
              gross |-> acc.gross + h.gross[1],
              worked |-> acc.worked + 1]
        ELSE acc

RECURSIVE week_loop(_, _, _, _)
week_loop(d, start_date, i, acc) ==
    IF i = WeekLength THEN acc
    ELSE week_loop(d, start_date, i + 1, week_step(d, start_date, i, acc))

WeekAverageMutant(net, worked) ==
    IF worked > 0 THEN Quot(net, WeekLength) ELSE Zero

\* total_horas_netas / dias_trabajados if dias_trabajados > 0 else 0
WeekAverage(net, worked) ==
    IF worked > 0 THEN Quot(net, worked) ELSE Zero

get_week_data(d, start_date) ==
    LET t == week_loop(d, start_date, 0, NoTotals)
    IN  [days |-> t.days,
         total_hours_net |-> t.net,
         total_hours_gross |-> t.gross,
         days_worked |-> t.worked,
         avg_per_day |-> WeekAverage(t.net, t.worked)]

\* if horas_netas:
YearCounts(horas_netas) == TruthyHours(horas_netas)

\* One pass of the loop body of get_year_total for the key date_str.
year_step(d, year, date_str, acc) ==
    LET date_obj == strptime_date(date_str)
        h == calculate_hours(d, date_str, TRUE)
    IN  IF date_obj # None /\ date_obj[1].year = year /\ YearCounts(h.net)
        THEN [acc EXCEPT !.net = @ + h.net[1],
                         !.gross = @ + h.gross[1],
                         !.worked = @ + 1]
        ELSE acc

RECURSIVE year_loop(_, _, _, _)
year_loop(d, year, keys, acc) ==
    IF keys = {} THEN acc
    ELSE LET date_str == CHOOSE k \in keys : \A j \in keys : k <= j
         IN  year_loop(d, year, keys \ {date_str},
                       year_step(d, year, date_str, acc))

\* round(total_horas_netas / dias_trabajados, 2), or 0 with no days: the
\* values round can return.  The quotient is a binary float, so when the decimal quotient
\* lies exactly halfway between two hundredths either neighbour can result.
YearAveragesMutant(net, worked) ==
    IF worked > 0 THEN {net \div worked} ELSE {0}

YearAverages(net, worked) ==
    IF worked > 0
    THEN IF 2 * (net % worked) = worked
         THEN {net \div worked, net \div worked + 1}
         ELSE {RoundHalfEven(net, worked)}
    ELSE {0}

get_year_total(d, year, avg) ==
    LET t == year_loop(d, year, DOMAIN d, NoTotals)
    IN  [total_hours_net |-> t.net,
         total_hours_gross |-> t.gross,
         days_worked |-> t.worked,
         avg_per_day |-> <<avg, 1>>]

GetWeekData(start_date) ==
    /\ lastOp' = [op |-> "get_week_data", args |-> <<start_date>>,
                  saved |-> "none"]
    /\ ret' = get_week_data(data, start_date)
    /\ UNCHANGED <<data, file>>

GetYearTotal(year) ==
    LET t == year_loop(data, year, DOMAIN data, NoTotals)
    IN  \E avg \in YearAverages(t.net, t.worked) :
            /\ lastOp' = [op |-> "get_year_total", args |-> <<year>>,
                          saved |-> "none"]
            /\ ret' = get_year_total(data, year, avg)
            /\ UNCHANGED <<data, file>>

Constructed == [op |-> "__init__", args |-> <<>>, saved |-> "none"]

----------------------------------------------------------------------------
(* Specification of one TimeTracker: every operation, small inputs *)

OpDays == {FirstDay + 2, FirstDay + 3}

OpKeys == {strftime_date(day) : day \in OpDays}

OpTimes == {strftime_time(9, 0), strftime_time(17, 0)}

OpNotes == {""}

OpStarts == {FirstDay - 4, FirstDay + 2, FirstDay + 3}

Years == {2024, 2025}

SampleStore ==
    [k \in {strftime_date(FirstDay + 2)} |->
        [entry |-> Str(strftime_time(9, 0)),
         exit |-> Str(strftime_time(17, 0)),
         notes |-> ""]]

InitFiles == {AbsentFile, CorruptFile, JsonFile(SampleStore)}

\* __init__: load_data from whatever the file holds.
Init ==
    /\ file \in InitFiles
    /\ data = load_data(file)
    /\ lastOp = Constructed
    /\ ret = None

Register ==
    \E date_str \in OpKeys, time_type \in {"entry", "exit"},
       time_value \in OpTimes, notes \in OpNotes, outcome \in SaveOutcomes :
        RegisterTime(date_str, time_type, time_value, notes, outcome)

Delete ==
    \E date_str \in OpKeys, outcome \in SaveOutcomes :
        DeleteRecord(date_str, outcome)

Calculate ==
    \E date_str \in OpKeys, apply_break \in BOOLEAN :
        CalculateHours(date_str, apply_break)

Week == \E start_date \in OpStarts : GetWeekData(start_date)

Year == \E year \in Years : GetYearTotal(year)

Next == Register \/ Delete \/ Calculate \/ Week \/ Year

Spec == Init /\ [][Next]_vars

----------------------------------------------------------------------------
(* Specification of the registrations: notes, overwriting, other dates *)

RegNotes == {"", "n", "m"}

\* Writes that succeed, and writes that fail once the file is truncated.
RegOutcomes == {"ok", "dump_failed"}

InitReg ==
    /\ file \in {AbsentFile, JsonFile(SampleStore)}
    /\ data = load_data(file)
    /\ lastOp = Constructed
    /\ ret = None

RegisterReg ==
    \E date_str \in OpKeys, time_type \in {"entry", "exit"},
       time_value \in OpTimes, notes \in RegNotes, outcome \in RegOutcomes :
        RegisterTime(date_str, time_type, time_value, notes, outcome)

DeleteReg ==
    \E date_str \in OpKeys, outcome \in RegOutcomes :
        DeleteRecord(date_str, outcome)

NextReg == RegisterReg \/ DeleteReg

SpecReg == InitReg /\ [][NextReg]_vars

----------------------------------------------------------------------------
(* Specification of calculate_hours over a wide range of times *)

CalcMinutes == {0, 1, 30, 59}

\* "24:00" and "09:60" do not parse as %H:%M.
BadTimes == {2400, 960}

CalcTimes ==
    {strftime_time(h, m) : h \in 0 .. 23, m \in CalcMinutes} \cup BadTimes

CalcFields == {None} \cup {Str(t) : t \in CalcTimes}

CalcKey == strftime_date(FirstDay)

CalcKeys == {CalcKey, strftime_date(FirstDay + 1)}

\* Stores of one record, over the wide range of times.
WideStores ==
    {[k \in {CalcKey} |-> [entry |-> entry, exit |-> exit, notes |-> ""]] :
        entry \in CalcFields, exit \in CalcFields}

InitCalc ==
    /\ data \in WideStores
    /\ file = JsonFile(data)
    /\ lastOp = Constructed
    /\ ret = None

NextCalc ==
    \E date_str \in CalcKeys, apply_break \in BOOLEAN :
        CalculateHours(date_str, apply_break)

SpecCalc == InitCalc /\ [][NextCalc]_vars

----------------------------------------------------------------------------
(* Specification of the aggregations over every store of a few dates *)

AggKeys == {strftime_date(day) : day \in AggDays}

AggExits ==
    {None} \cup
    {Str(t) : t \in {strftime_time(9, 0), strftime_time(9, 1),
                     strftime_time(9, 2), strftime_time(14, 0),
                     strftime_time(17, 0), strftime_time(18, 0), 2400}}

\* Records entered at 09:00 with every exit.
AggRecords ==
    {[entry |-> Str(strftime_time(9, 0)), exit |-> exit, notes |-> ""] :
        exit \in AggExits}

AggStores == UNION {[S -> AggRecords] : S \in SUBSET AggKeys}

\* The week of Monday 2024-12-30, and a week that ends on it.
AggStarts == {FirstDay - 5, FirstDay + 1}

InitAgg ==
    /\ data \in AggStores \cup WideStores
    /\ file = JsonFile(data)
    /\ lastOp = Constructed
    /\ ret = None

WeekAgg == \E start_date \in AggStarts : GetWeekData(start_date)

YearAgg == \E year \in Years : GetYearTotal(year)

NextAgg == WeekAgg \/ YearAgg

SpecAgg == InitAgg /\ [][NextAgg]_vars

----------------------------------------------------------------------------
(* Vocabulary of the properties, stated from the times themselves *)

ValidTime(s) == (s \div 100) \in 0 .. 23 /\ (s % 100) \in 0 .. 59

MinuteOfDay(s) == (s \div 100) * 60 + (s % 100)

\* A complete record: entry and exit present and both HH:MM times.
Complete(rec) ==
    /\ rec.entry # None /\ rec.exit # None
    /\ ValidTime(rec.entry[1]) /\ ValidTime(rec.exit[1])

EntryMinute(rec) == MinuteOfDay(rec.entry[1])

ExitMinute(rec) == MinuteOfDay(rec.exit[1])

\* Minutes from entry to exit, the exit on the next day when it is earlier.
GrossMinutes(rec) ==
    IF ExitMinute(rec) < EntryMinute(rec)
    THEN 24 * 60 - (EntryMinute(rec) - ExitMinute(rec))
    ELSE ExitMinute(rec) - EntryMinute(rec)

Deducted(rec) == GrossMinutes(rec) > 5 * 60

NetMinutes(rec) ==
    IF Deducted(rec) THEN GrossMinutes(rec) - 30 ELSE GrossMinutes(rec)

\* m minutes as hours rounded to 2 decimals, in hundredths: 5m/3 + 1/2
\* rounded down (a whole number of minutes is never halfway).
Hundredths(m) == (10 * m + 3) \div 6

IsCalc == lastOp.op = "calculate_hours"

CalcRecord == data[lastOp.args[1]]

\* The last operation computed the hours of a complete record.
CalcComplete ==
    IsCalc /\ lastOp.args[1] \in DOMAIN data /\ Complete(CalcRecord)

----------------------------------------------------------------------------
(* C1 *)

\* C1: for a record with parseable entry and exit, calculate_hours with
\* apply_break=True returns net = round(gross - 0.5, 2) when the unrounded
\* gross exceeds 5 hours and net = returned gross when gross is 5 hours or
\* less (09:00-14:00 gives net 5.0); with apply_break=False net = gross.
C1_BreakDeduction ==
    CalcComplete =>
        /\ ret.net # None /\ ret.gross # None
        /\ (lastOp.args[2] /\ Deducted(CalcRecord)) =>
               ret.net[1] = Hundredths(GrossMinutes(CalcRecord) - 30)
        /\ (lastOp.args[2] /\ ~Deducted(CalcRecord)) => ret.net = ret.gross
        /\ (lastOp.args[2] /\ CalcRecord.entry = Str(900)
                           /\ CalcRecord.exit = Str(1400)) => ret.net = Str(500)
        /\ ~lastOp.args[2] => ret.net = ret.gross

\* 09:00-14:01 with the break applied: the deduction is taken (net 4.52).
C1_Witness ==
    /\ CalcComplete /\ lastOp.args[2]
    /\ CalcRecord.entry = Str(900) /\ CalcRecord.exit = Str(1401)
    /\ ret.net = Str(452) /\ ret.gross = Str(502)

----------------------------------------------------------------------------
(* C2 *)

\* C2: when the exit is earlier in the day than the entry it is taken as the
\* next day, gross = 24h - (entry - exit) (22:00-02:00 gives gross 4.0 and
\* net 4.0); for every complete record the calculation returns a value and
\* 0 <= gross < 24.
C2_Overnight ==
    CalcComplete =>
        /\ ret.gross # None /\ ret.net # None
        /\ ret.gross[1] >= 0 /\ ret.gross[1] < 2400
        /\ ret.gross[1] = Hundredths(GrossMinutes(CalcRecord))
        /\ (CalcRecord.entry = Str(2200) /\ CalcRecord.exit = Str(200)) =>
               (ret.gross = Str(400) /\ ret.net = Str(400))

\* 22:00-02:00 has been computed.
C2_Witness ==
    /\ CalcComplete
    /\ CalcRecord.entry = Str(2200) /\ CalcRecord.exit = Str(200)
    /\ ret.gross = Str(400)

----------------------------------------------------------------------------
(* Vocabulary of the aggregation properties *)

IsWeek == lastOp.op = "get_week_data"

IsYear == lastOp.op = "get_year_total"

IsAggregation == IsWeek \/ IsYear

\* The stored dates of the aggregation window of the last operation.
Window ==
    IF IsWeek
    THEN {strftime_date(lastOp.args[1] + i) : i \in 0 .. 6} \cap DOMAIN data
    ELSE {k \in DOMAIN data : k \div 10000 = lastOp.args[1]}

CompleteDates == {k \in Window : Complete(data[k])}

RECURSIVE SumOf(_, _)
SumOf(f, S) ==
    IF S = {} THEN 0
    ELSE LET k == CHOOSE x \in S : TRUE IN f[k] + SumOf(f, S \ {k})

NetMinutesOf == [k \in CompleteDates |-> NetMinutes(data[k])]

GrossMinutesOf == [k \in CompleteDates |-> GrossMinutes(data[k])]

NetHundredthsOf == [k \in CompleteDates |-> Hundredths(NetMinutes(data[k]))]

GrossHundredthsOf ==
    [k \in CompleteDates |-> Hundredths(GrossMinutes(data[k]))]

----------------------------------------------------------------------------
(* C3 *)

\* The window holds exactly two records, on its first day (gross 8 hours)
\* and on its third day (gross 9 hours), both complete.
MondayAndWednesday ==
    LET mon == strftime_date(lastOp.args[1])
        wed == strftime_date(lastOp.args[1] + 2)
    IN  /\ IsWeek
        /\ Window = {mon, wed}
        /\ Complete(data[mon]) /\ GrossMinutes(data[mon]) = 8 * 60
        /\ Complete(data[wed]) /\ GrossMinutes(data[wed]) = 9 * 60

\* C3 as stated: Monday 8h gross and Wednesday 9h gross give days_worked 2,
\* total net 16.5 and average 8.25.
C3_Original ==
    MondayAndWednesday =>
        /\ ret.days_worked = 2
        /\ ret.total_hours_net = 1650
        /\ ret.avg_per_day = <<825, 1>>

\* C3 amended: Monday 8h gross and Wednesday 9h gross give days_worked 2,
\* total net 16.0 (both days exceed 5 hours and lose 0.5) and average 8.0.
C3_WeekExample ==
    MondayAndWednesday =>
        /\ ret.days_worked = 2
        /\ ret.total_hours_net = 1600
        /\ ret.total_hours_gross = 1700
        /\ ret.avg_per_day = <<800, 1>>

\* The week starting Monday 2024-12-30 with those two records was summed.
C3_Witness ==
    /\ MondayAndWednesday
    /\ strftime_date(lastOp.args[1]) = 20241230
    /\ ret.days_worked = 2

----------------------------------------------------------------------------
(* C4 *)

\* C4: days_worked of get_week_data and get_year_total is the number of
\* dates of the window whose record is complete and parseable.
C4_DaysWorked ==
    IsAggregation => ret.days_worked = Cardinality(CompleteDates)

----------------------------------------------------------------------------
(* C5 *)

\* C5 as stated: the totals are the unrounded per-day hours summed and
\* rounded to 2 decimals once.
C5_Original ==
    IsAggregation =>
        /\ ret.total_hours_net =
               Hundredths(SumOf(NetMinutesOf, CompleteDates))
        /\ ret.total_hours_gross =
               Hundredths(SumOf(GrossMinutesOf, CompleteDates))

\* C5 amended: the totals are the sums of the per-day hours as
\* calculate_hours returns them, each already rounded to 2 decimals.
C5_TotalsOfRounded ==
    IsAggregation =>
        /\ ret.total_hours_net = SumOf(NetHundredthsOf, CompleteDates)
        /\ ret.total_hours_gross = SumOf(GrossHundredthsOf, CompleteDates)

\* Two counted days whose rounded hours do not add up to the rounded sum.
C5_Witness ==
    /\ IsAggregation
    /\ ret.days_worked >= 2
    /\ ret.total_hours_net # Hundredths(SumOf(NetMinutesOf, CompleteDates))

----------------------------------------------------------------------------
(* C9 *)

\* C9 as stated: the average is total net / days_worked when days_worked > 0
\* and 0 when days_worked = 0, for both aggregations.
C9_Original ==
    IsAggregation =>
        IF ret.days_worked > 0
        THEN ret.avg_per_day[1] * ret.days_worked
                 = ret.total_hours_net * ret.avg_per_day[2]
        ELSE ret.avg_per_day[1] = 0

\* Twice the distance of avg (whole hundredths) from total / days, times days.
TwiceOff(avg, total, days) ==
    IF avg * days >= total THEN 2 * (avg * days - total)
    ELSE 2 * (total - avg * days)

\* C9 amended: in get_week_data the average is total net / days_worked; in
\* get_year_total it is that quotient rounded to 2 decimals; it is 0 when
\* days_worked = 0, and every aggregation returns a summary.
C9_Average ==
    IsAggregation =>
        /\ ret.days_worked \in 0 .. Cardinality(Window)
        /\ ret.avg_per_day[2] > 0
        /\ ret.days_worked = 0 => ret.avg_per_day[1] = 0
        /\ (ret.days_worked > 0 /\ IsWeek) =>
               ret.avg_per_day[1] * ret.days_worked
                   = ret.total_hours_net * ret.avg_per_day[2]
        /\ (ret.days_worked > 0 /\ IsYear) =>
               /\ ret.avg_per_day[2] = 1
               /\ TwiceOff(ret.avg_per_day[1], ret.total_hours_net,
                           ret.days_worked) <= ret.days_worked

\* A yearly summary of three days whose average was rounded up.
C9_Witness ==
    /\ IsYear
    /\ ret.days_worked = 3
    /\ ret.total_hours_net % 3 = 2

----------------------------------------------------------------------------
(* C10 *)

BreakDays == {k \in DOMAIN ret.days : ret.days[k].has_break}

\* C10: in a weekly summary each day's returned gross minus returned net is
\* 0.50 when the deduction applied and 0 otherwise, has_break is true
\* exactly when it applied, and total gross minus total net is 0.5 times
\* the number of days with has_break.
C10_BreakConsistency ==
    IsWeek =>
        /\ \A k \in DOMAIN ret.days :
               /\ k \in CompleteDates
               /\ ret.days[k].has_break <=> Deducted(data[k])
               /\ ret.days[k].hours_gross - ret.days[k].hours_net
                      = IF Deducted(data[k]) THEN 50 ELSE 0
        /\ ret.total_hours_gross - ret.total_hours_net
               = 50 * Cardinality(BreakDays)

\* A week with a day of exactly 5 hours (no break) and a longer day.
C10_Witness ==
    /\ IsWeek
    /\ \E k \in DOMAIN ret.days :
           ~ret.days[k].has_break /\ ret.days[k].hours_gross = 500
    /\ \E k \in DOMAIN ret.days : ret.days[k].has_break

----------------------------------------------------------------------------
(* C6 *)

IsDelete == lastOp.op = "delete_record"

IsRegister == lastOp.op = "register_time"

\* After delete_record returned True the date is not in self.data; after it
\* returned False nothing was written.
DeleteResult ==
    IsDelete =>
        /\ ret = TRUE => (lastOp.args[1] \notin DOMAIN data /\ lastOp.saved # "none")
        /\ ret = FALSE => lastOp.saved = "none"

\* An aggregation counts stored dates of its window only.
AggregatesStoredOnly ==
    /\ IsWeek => DOMAIN ret.days \subseteq Window
    /\ IsAggregation => ret.days_worked <= Cardinality(Window)

\* A delete_record step that returns False changes neither the records nor
\* the file; it returns False exactly when the date had no record.
DeleteAbsentStep ==
    lastOp'.op = "delete_record" =>
        /\ ret' = FALSE <=> lastOp'.args[1] \notin DOMAIN data
        /\ ret' = FALSE => (data' = data /\ file' = file)
        /\ ret' = TRUE => data' = [k \in DOMAIN data \ {lastOp'.args[1]} |-> data[k]]

\* A date with no record gets one only by a register_time for that date.
AbsentUntilRegistered ==
    \A k \in OpKeys :
        (k \notin DOMAIN data /\ k \in DOMAIN data') =>
            (lastOp'.op = "register_time" /\ lastOp'.args[1] = k)

----------------------------------------------------------------------------
(* C7 *)

OtherField(rec, time_type) == IF time_type = "entry" THEN rec.exit ELSE rec.entry

ThisField(rec, time_type) == IF time_type = "entry" THEN rec.entry ELSE rec.exit

\* The effect of a register_time(d, time_type, t, notes) step on the records.
RegisterStep ==
    lastOp'.op = "register_time" =>
        LET d == lastOp'.args[1]
            time_type == lastOp'.args[2]
            t == lastOp'.args[3]
            notes == lastOp'.args[4]
        IN  /\ DOMAIN data' = DOMAIN data \cup {d}
            /\ ThisField(data'[d], time_type) = Str(t)
            /\ \A k \in DOMAIN data \ {d} : data'[k] = data[k]
            /\ d \in DOMAIN data =>
                   /\ OtherField(data'[d], time_type)
                          = OtherField(data[d], time_type)
                   /\ notes = "" => data'[d].notes = data[d].notes
            /\ d \notin DOMAIN data =>
                   /\ OtherField(data'[d], time_type) = None
                   /\ data'[d].notes = notes
            /\ ret' = TRUE

\* The same registration performed again leaves the records as they were.
RegisterTwice ==
    (IsRegister /\ lastOp'.op = "register_time"
                /\ lastOp'.args = lastOp.args) => data' = data

\* C7: register_time(d, "entry", t) sets the entry of d to t (creating the
\* record with exit absent if d had none), leaves the exit of d and every
\* other date unchanged, and the notes of d unchanged when the notes
\* argument is empty; the same registration a second time leaves the record
\* set identical, with entry the latest value written.
C7_Register == [][RegisterStep /\ RegisterTwice]_vars

\* An entry was overwritten, with empty notes, on a record that had an exit
\* and notes, while the other date holds a record.
C7_Witness ==
    /\ IsRegister
    /\ lastOp.args[2] = "entry" /\ lastOp.args[3] = 1700 /\ lastOp.args[4] = ""
    /\ data[lastOp.args[1]].notes = "n"
    /\ data[lastOp.args[1]].exit = Str(900)
    /\ DOMAIN data = OpKeys

----------------------------------------------------------------------------
(* C8 *)

\* Right after a save_data that succeeded the file holds the record set.
SavedIsCurrent ==
    lastOp.saved = "ok" => (file.kind = "json" /\ load_data(file) = data)

\* A step whose save_data failed: the change stays in memory, and the file
\* is not written again (it is as it was, or left truncated).
FailedWriteStep ==
    lastOp'.saved = "fail" =>
        /\ lastOp'.op = "register_time" =>
               /\ lastOp'.args[1] \in DOMAIN data'
               /\ ThisField(data'[lastOp'.args[1]], lastOp'.args[2])
                      = Str(lastOp'.args[3])
        /\ lastOp'.op = "delete_record" => lastOp'.args[1] \notin DOMAIN data'
        /\ file' = file \/ file' = CorruptFile

\* The file changes only in a register_time or delete_record step.
WritesOnlyWhenSaving ==
    file' # file => lastOp'.saved # "none"

\* C8: when save_data fails in register_time or delete_record the write is
\* not retried and the change in memory is kept, so memory and file may
\* differ; right after every save_data that succeeds the file holds exactly
\* the in-memory record set.
C8_WriteFailure ==
    /\ []SavedIsCurrent
    /\ [][FailedWriteStep /\ WritesOnlyWhenSaving]_vars

\* A failed write left a record in memory that the file does not hold.
C8_Witness ==
    /\ lastOp.saved = "fail"
    /\ file.kind = "json"
    /\ load_data(file) # data
    /\ DOMAIN data # {}

====
